---- MODULE Spec2Model ----
(***************************************************************************)
(* A model of sbpl_interface/src/environment_chain3d_moveit.cpp:            *)
(* EnvironmentChain3DMoveIt, the adapter between a lattice search and a     *)
(* robot arm (setup of a planning request, heuristic queries, trajectory    *)
(* reconstruction, interpolated collision checking and shortcutting).       *)
(*                                                                         *)
(* Joint values (C++ double) are exact rationals <<n, d>> in ticks, d > 0,  *)
(* in lowest terms.  Indices keep the 0-based values of the C++ code.       *)
(***************************************************************************)
EXTENDS Integers, Sequences, FiniteSets, TLC

VARIABLES
    \* the planning scene's collision oracle: the group configurations in collision
    collision_world,
    \* the robot model: the 0-based indices of its continuous revolute joints
    continuous_joints,
    \* planning_statistics_.coll_checks_
    coll_checks,
    \* attemptShortcut: its arguments, locals and position
    traj_in, traj_out, last_point_ind, current_point_ind,
    last_good_start_ind, last_good_end_ind, last_good_segment_values, pc,
    \* a direct call of interpolateAndCollisionCheck: arguments and outcome
    angles1, angles2, iacc,
    \* the environment: hash_data_.state_ID_to_coord_table_, the motion
    \* primitives, start_ and goal_ (state IDs), params_, bfs_ (its distance
    \* grid), the distance fields and BFS objects allocated and not deleted
    hash_table, prims, start_, goal_, params_, bfs_, live_fields, live_bfs,
    \* path_constraint_set_: the group configurations its decide() rejects
    path_constraint_set_,
    \* the planning scene's world, as the grid cells its shapes occupy
    occupied_cells,
    \* the planning requests made so far, and whether the last one succeeded
    requests, configured,
    \* the last call on the environment: its name, arguments and results
    \* (mres.error_code.val, the value returned, the trajectory filled in)
    call

shortcutLocals == <<traj_in, traj_out, last_point_ind, current_point_ind,
                    last_good_start_ind, last_good_end_ind, last_good_segment_values>>
shortcutVars == <<shortcutLocals, pc>>
interpVars == <<angles1, angles2, iacc>>
envVars == <<hash_table, prims, start_, goal_, params_, bfs_, live_fields, live_bfs,
             path_constraint_set_, occupied_cells, requests, configured, call>>
vars == <<collision_world, continuous_joints, coll_checks, shortcutVars, interpVars, envVars>>

----------------------------------------------------------------------------
(* Bounds of the model *)

\* joint 0 of an input configuration ranges over 0..MaxAngle ticks
MaxAngle == 3
\* joint 1 of an input configuration ranges over 0..MaxWrist ticks
MaxWrist == 1
\* at most this many configurations of the world are in collision
MaxObstacles == 2
\* at most this many waypoints in an input trajectory
MaxWaypoints == 4
\* the interpolation loop is followed for at most this many iterations
MaxInterpIters == 8
\* attemptShortcut's loop is followed while coll_checks is below this
MaxCollChecks == 24
\* at most this many planning requests on one environment
MaxRequests == 2
\* params_.cost_per_cell and params_.cost_per_meter range over 1..MaxCost
MaxCost == 2
\* at most this many state IDs in a sequence to read back
MaxStateIDs == 2
\* isStateToStateValid is called while coll_checks is below this
MaxValidityChecks == 3

(* Program constants *)

\* <climits>
INT_MAX == 2147483647
\* params_.interpolation_distance, in ticks
interpolation_distance == 1
\* joint_model_group_: the number of variables of the planning group
NumJoints == 2
\* the joints of the arm the helper's "i == 4 || i == 6" is written for
ArmJoints == 7
\* params_.field_origin_x, _y, _z and params_.field_resolution, in ticks
field_origin_x == 0
field_origin_y == 0
field_origin_z == 0
field_resolution == 1
\* field_->getXNumCells(), getYNumCells(), getZNumCells()
XNumCells == 3
YNumCells == 2
ZNumCells == 1
\* mres.error_code.val as the caller's fresh response holds it
NotSet == "NOT_SET"

----------------------------------------------------------------------------
(* double arithmetic, exact *)

Abs(x) == IF x < 0 THEN -x ELSE x

RECURSIVE GCD(_, _)
GCD(a, b) == IF b = 0 THEN a ELSE GCD(b, a % b)

Rat(n, d) ==
    LET g == GCD(Abs(n), Abs(d))
    IN  IF d < 0 THEN <<(-n) \div g, (-d) \div g>> ELSE <<n \div g, d \div g>>

RAdd(x, y) == Rat(x[1] * y[2] + y[1] * x[2], x[2] * y[2])
RSub(x, y) == Rat(x[1] * y[2] - y[1] * x[2], x[2] * y[2])
RMul(x, y) == Rat(x[1] * y[1], x[2] * y[2])
RDiv(x, y) == Rat(x[1] * y[2], x[2] * y[1])
RLess(x, y) == x[1] * y[2] < y[1] * x[2]
fabs(x) == <<Abs(x[1]), x[2]>>
\* floor(x) converted to int
floor(x) == x[1] \div x[2]

\* M_PI
Pi == <<355, 113>>
TwoPi == RMul(<<2, 1>>, Pi)

\* fmod(x, y) for y > 0: the remainder has the sign of x
fmod(x, y) ==
    LET q == floor(RDiv(fabs(x), y))
        r == RSub(fabs(x), RMul(<<q, 1>>, y))
    IN  IF x[1] < 0 THEN <<-r[1], r[2]>> ELSE r

\* angles::normalize_angle_positive, angles::normalize_angle
normalize_angle_positive(x) == fmod(RAdd(fmod(x, TwoPi), TwoPi), TwoPi)
normalize_angle(x) ==
    LET a == normalize_angle_positive(x)
    IN  IF RLess(Pi, a) THEN RSub(a, TwoPi) ELSE a

\* angles::shortest_angular_distance(from, to)
shortest_angular_distance(from, to) == normalize_angle(RSub(to, from))

----------------------------------------------------------------------------
(* interpolateAndCollisionCheck and its helper *)

Max(a, b) == IF a > b THEN a ELSE b

\* one joint's contribution; i is the 0-based joint index
JointDist(a1, a2, i, delta) ==
    IF i = 4 \/ i = 6
    THEN floor(RDiv(fabs(shortest_angular_distance(a1, a2)), delta))
    ELSE floor(RDiv(fabs(RSub(a2, a1)), delta))

RECURSIVE JointDistMax(_, _, _, _, _)
JointDistMax(a1, a2, delta, i, max_dist) ==
    IF i >= Len(a1) THEN max_dist
    ELSE JointDistMax(a1, a2, delta, i + 1,
                      Max(max_dist, JointDist(a1[i + 1], a2[i + 1], i, delta)))

getJointDistanceIntegerMax(a1, a2, delta) ==
    IF Len(a1) # Len(a2) THEN INT_MAX
    ELSE JointDistMax(a1, a2, delta, 0, 0)

\* RobotState::setJointGroupPositions: the group's NumJoints variables are
\* copied from the front of the vector
SetJointGroupPositions(angles) == SubSeq(angles, 1, NumJoints)

\* planning_scene_->checkCollision(req, res, state); res.collision
Collides(rs) == rs \in collision_world

\* rs_1->interpolate(*rs_2, (1.0/maximum_moves)*i, *rs_temp)
Interpolate(rs_1, rs_2, i, maximum_moves) ==
    [j \in 1..Len(rs_1) |->
        RAdd(rs_1[j], RMul(RSub(rs_2[j], rs_1[j]), Rat(i, maximum_moves)))]

\* "We already checked rs_2, don't check again"
SampleIsChecked(i, maximum_moves) == i # maximum_moves - 1

\* the for loop of interpolateAndCollisionCheck from iteration i on
RECURSIVE InterpLoop(_, _, _, _, _, _)
InterpLoop(rs_1, rs_2, maximum_moves, i, state_values, checks) ==
    IF ~(i < maximum_moves)
    THEN [returned |-> TRUE, valid |-> TRUE, state_values |-> state_values,
          coll_checks |-> checks, interpolations |-> i - 1]
    ELSE IF i > MaxInterpIters
    THEN [returned |-> FALSE, valid |-> FALSE, state_values |-> state_values,
          coll_checks |-> checks, interpolations |-> i - 1]
    ELSE LET rs_temp == Interpolate(rs_1, rs_2, i, maximum_moves)
         IN  IF SampleIsChecked(i, maximum_moves)
             THEN IF Collides(rs_temp)
                  THEN [returned |-> TRUE, valid |-> FALSE,
                        state_values |-> state_values,
                        coll_checks |-> checks + 1, interpolations |-> i]
                  ELSE InterpLoop(rs_1, rs_2, maximum_moves, i + 1,
                                  Append(state_values, rs_temp), checks + 1)
             ELSE InterpLoop(rs_1, rs_2, maximum_moves, i + 1,
                             Append(state_values, rs_temp), checks)

\* interpolateAndCollisionCheck with the test of line 411 negated
interpolateAndCollisionCheckNegatedTest(a1, a2) ==
    LET rs_1 == SetJointGroupPositions(a1)
        rs_2 == SetJointGroupPositions(a2)
    IN  IF ~Collides(rs_2)
        THEN [returned |-> TRUE, valid |-> FALSE, state_values |-> <<>>,
              coll_checks |-> 1, interpolations |-> 0]
        ELSE InterpLoop(rs_1, rs_2,
                        getJointDistanceIntegerMax(a1, a2, <<interpolation_distance, 1>>),
                        1, <<>>, 1)

\* interpolateAndCollisionCheck with the destination checked after the loop
interpolateAndCollisionCheckDestinationLast(a1, a2) ==
    LET rs_1 == SetJointGroupPositions(a1)
        rs_2 == SetJointGroupPositions(a2)
        r == InterpLoop(rs_1, rs_2,
                        getJointDistanceIntegerMax(a1, a2, <<interpolation_distance, 1>>),
                        1, <<>>, 0)
    IN  IF r.returned /\ r.valid
        THEN [r EXCEPT !.valid = ~Collides(rs_2), !.coll_checks = r.coll_checks + 1]
        ELSE r

\* The outcome of a call: whether it returned within MaxInterpIters
\* iterations, the bool it returned, the state_values it left, and the
\* collision checks and interpolations it performed.
interpolateAndCollisionCheck(a1, a2) ==
    LET rs_1 == SetJointGroupPositions(a1)
        rs_2 == SetJointGroupPositions(a2)
    IN  IF Collides(rs_2)
        THEN [returned |-> TRUE, valid |-> FALSE, state_values |-> <<>>,
              coll_checks |-> 1, interpolations |-> 0]
        ELSE InterpLoop(rs_1, rs_2,
                        getJointDistanceIntegerMax(a1, a2, <<interpolation_distance, 1>>),
                        1, <<>>, 1)

----------------------------------------------------------------------------
(* attemptShortcut *)

\* traj_in.points[ind], ind 0-based
At(points, ind) == points[ind + 1]

\* "have interpolated points to copy in": one JointTrajectoryPoint per entry
PushSegment(points, segment_values) == points \o segment_values

\* ExtendSpan with the segment of the new span not recorded
ExtendSpanStaleSegment(st, segment_values) ==
    [st EXCEPT !.last_good_start_ind = st.last_point_ind,
               !.last_good_end_ind = st.current_point_ind,
               !.current_point_ind = st.current_point_ind + 1]

\* lines 477-480: the motion last_point_ind -> current_point_ind was valid
ExtendSpan(st, segment_values) ==
    [st EXCEPT !.last_good_start_ind = st.last_point_ind,
               !.last_good_end_ind = st.current_point_ind,
               !.last_good_segment_values = segment_values,
               !.current_point_ind = st.current_point_ind + 1]

\* CommitSpan without the test of line 484: the segment is always copied in
CommitSpanAlwaysSegment(st, in_points) ==
    [st EXCEPT !.points = PushSegment(st.points, st.last_good_segment_values),
               !.last_good_start_ind = st.last_good_end_ind,
               !.last_point_ind = st.last_good_end_ind,
               !.current_point_ind = st.last_good_end_ind + 1,
               !.last_good_segment_values = <<>>]

\* CommitSpan with line 501 as "current_point_ind = last_good_end_ind"
CommitSpanSameCandidate(st, in_points) ==
    [st EXCEPT !.points =
                   IF st.last_good_end_ind - st.last_good_start_ind = 1
                   THEN Append(st.points, At(in_points, st.last_good_end_ind))
                   ELSE PushSegment(st.points, st.last_good_segment_values),
               !.last_good_start_ind = st.last_good_end_ind,
               !.last_point_ind = st.last_good_end_ind,
               !.current_point_ind = st.last_good_end_ind,
               !.last_good_segment_values = <<>>]

\* lines 484-502: the motion was invalid, the last good span is committed
CommitSpan(st, in_points) ==
    [st EXCEPT !.points =
                   IF st.last_good_end_ind - st.last_good_start_ind = 1
                   THEN Append(st.points, At(in_points, st.last_good_end_ind))
                   ELSE PushSegment(st.points, st.last_good_segment_values),
               !.last_good_start_ind = st.last_good_end_ind,
               !.last_point_ind = st.last_good_end_ind,
               !.current_point_ind = st.last_good_end_ind + 1,
               !.last_good_segment_values = <<>>]

\* line 505: the loop's exit test
DoneParsing(st, in_points) == st.current_point_ind >= Len(in_points)

\* FinishTrajectory without the push_back of traj_in.points.back()
FinishTrajectoryDropsGoal(st, in_points) ==
    [st EXCEPT !.points =
                   IF Len(st.last_good_segment_values) > 0
                   THEN PushSegment(st.points, st.last_good_segment_values)
                   ELSE st.points]

\* lines 507-517: "done parsing trajectory, clean up"
FinishTrajectory(st, in_points) ==
    [st EXCEPT !.points =
                   Append(IF Len(st.last_good_segment_values) > 0
                          THEN PushSegment(st.points, st.last_good_segment_values)
                          ELSE st.points,
                          At(in_points, Len(in_points) - 1))]

\* the locals of attemptShortcut as one record
Locals ==
    [points |-> traj_out.points,
     last_point_ind |-> last_point_ind,
     current_point_ind |-> current_point_ind,
     last_good_start_ind |-> last_good_start_ind,
     last_good_end_ind |-> last_good_end_ind,
     last_good_segment_values |-> last_good_segment_values]

SetLocals(st) ==
    /\ traj_out' = [traj_out EXCEPT !.points = st.points]
    /\ last_point_ind' = st.last_point_ind
    /\ current_point_ind' = st.current_point_ind
    /\ last_good_start_ind' = st.last_good_start_ind
    /\ last_good_end_ind' = st.last_good_end_ind
    /\ last_good_segment_values' = st.last_good_segment_values

\* AttemptShortcutEntry without lines 455-459: one waypoint goes the general
\* way, pushed as the front and as the back of the input
AttemptShortcutEntryNoSingleCase ==
    /\ pc = "entry"
    /\ last_point_ind' = 0
    /\ current_point_ind' = 1
    /\ last_good_start_ind' = 0
    /\ last_good_end_ind' = 1
    /\ last_good_segment_values' = <<>>
    /\ IF Len(traj_in.points) = 1
       THEN /\ traj_out' = [joint_names |-> traj_in.joint_names,
                            points |-> <<At(traj_in.points, 0), At(traj_in.points, 0)>>]
            /\ pc' = "returned"
       ELSE /\ traj_out' = [joint_names |-> traj_in.joint_names,
                            points |-> <<At(traj_in.points, 0)>>]
            /\ pc' = "loop"
    /\ UNCHANGED <<collision_world, continuous_joints, coll_checks, traj_in,
                   interpVars, envVars>>

\* lines 447-463: entry, up to the loop
AttemptShortcutEntry ==
    /\ pc = "entry"
    /\ last_point_ind' = 0
    /\ current_point_ind' = 1
    /\ last_good_start_ind' = 0
    /\ last_good_end_ind' = 1
    /\ last_good_segment_values' = <<>>
    /\ IF Len(traj_in.points) = 1
       THEN /\ traj_out' = traj_in
            /\ pc' = "returned"
       ELSE /\ traj_out' = [joint_names |-> traj_in.joint_names,
                            points |-> <<At(traj_in.points, 0)>>]
            /\ pc' = "loop"
    /\ UNCHANGED <<collision_world, continuous_joints, coll_checks, traj_in, interpVars, envVars>>

\* lines 466-520: one iteration of "while (1)"
ShortcutIterate ==
    /\ pc = "loop"
    /\ coll_checks < MaxCollChecks
    /\ LET start_point == At(traj_in.points, last_point_ind)
           end_point == At(traj_in.points, current_point_ind)
           r == interpolateAndCollisionCheck(start_point, end_point)
           st == IF r.valid THEN ExtendSpan(Locals, r.state_values)
                 ELSE CommitSpan(Locals, traj_in.points)
       IN  /\ r.returned
           /\ coll_checks' = coll_checks + r.coll_checks
           /\ IF DoneParsing(st, traj_in.points)
              THEN /\ SetLocals(FinishTrajectory(st, traj_in.points))
                   /\ pc' = "returned"
              ELSE /\ SetLocals(st)
                   /\ pc' = "loop"
    /\ UNCHANGED <<collision_world, continuous_joints, traj_in, interpVars, envVars>>

----------------------------------------------------------------------------
(* Inputs *)

Tick(k) == <<k, 1>>

\* configurations of the group whose joint 1 is at 0
WaypointConfigs == {<<Tick(x), Tick(0)>> : x \in 0..MaxAngle}
\* configurations of the group at whole ticks
Configs == {<<Tick(x), Tick(y)>> : x \in 0..MaxAngle, y \in 0..MaxWrist}
\* configurations of the group whose joint 0 is at a half tick
InterpConfigs == {<<Rat(x, 2), Tick(y)>> : x \in 0..(2 * MaxAngle), y \in 0..MaxWrist}

\* argument pairs of one length, and of two lengths (a vector that is longer
\* than the group has variables; the shorter one at the origin)
Origin == <<Tick(0), Tick(0)>>
MatchedPairs == InterpConfigs \X InterpConfigs
MismatchedPairs ==
    {<<Origin \o <<Tick(0)>>, c>> : c \in Configs}
        \cup {<<Origin, c \o <<Tick(0)>>>> : c \in Configs}

Worlds(candidates) == {w \in SUBSET candidates : Cardinality(w) <= MaxObstacles}

JointNames == <<"joint_0", "joint_1">>

Trajectories ==
    {[joint_names |-> JointNames, points |-> p] :
        p \in UNION {[1..n -> WaypointConfigs] : n \in 1..MaxWaypoints}}

NoCall == [returned |-> FALSE, valid |-> FALSE, state_values |-> <<>>,
           coll_checks |-> 0, interpolations |-> 0]

InterpIdle ==
    /\ angles1 = <<>>
    /\ angles2 = <<>>
    /\ iacc = NoCall

ShortcutIdle ==
    /\ traj_in = [joint_names |-> <<>>, points |-> <<>>]
    /\ traj_out = [joint_names |-> <<>>, points |-> <<>>]
    /\ last_point_ind = 0
    /\ current_point_ind = 0
    /\ last_good_start_ind = 0
    /\ last_good_end_ind = 0
    /\ last_good_segment_values = <<>>

\* the environment as its constructor leaves it (lines 51-57)
EnvFresh ==
    /\ hash_table = <<>>
    /\ prims = <<>>
    /\ start_ = "NULL"
    /\ goal_ = "NULL"
    /\ params_ = "unset"
    /\ bfs_ = "NULL"
    /\ live_fields = 0
    /\ live_bfs = 0
    /\ path_constraint_set_ = "NULL"
    /\ requests = 0
    /\ configured = FALSE
    /\ call = [op |-> "none"]

----------------------------------------------------------------------------
(* Shortcutting a trajectory *)

Init ==
    /\ collision_world \in Worlds(WaypointConfigs)
    /\ coll_checks = 0
    /\ traj_in \in Trajectories
    /\ traj_out = [joint_names |-> <<>>, points |-> <<>>]
    /\ last_point_ind = 0
    /\ current_point_ind = 0
    /\ last_good_start_ind = 0
    /\ last_good_end_ind = 0
    /\ last_good_segment_values = <<>>
    /\ pc = "entry"
    /\ InterpIdle
    /\ EnvFresh
    /\ continuous_joints = {}
    /\ occupied_cells = {}

Next ==
    \/ AttemptShortcutEntry
    \/ ShortcutIterate

Spec == Init /\ [][Next]_vars

----------------------------------------------------------------------------
(* One call of interpolateAndCollisionCheck *)

CallInterpolate ==
    /\ pc = "interp_call"
    /\ iacc' = interpolateAndCollisionCheck(angles1, angles2)
    /\ coll_checks' = coll_checks + iacc'.coll_checks
    /\ pc' = IF iacc'.returned THEN "interp_returned" ELSE "interp_running"
    /\ UNCHANGED <<collision_world, continuous_joints, angles1, angles2, shortcutLocals, envVars>>

InitInterp ==
    /\ collision_world \in Worlds(Configs)
    /\ coll_checks = 0
    /\ \E pair \in MatchedPairs \cup MismatchedPairs :
          /\ angles1 = pair[1]
          /\ angles2 = pair[2]
    /\ iacc = NoCall
    /\ ShortcutIdle
    /\ pc = "interp_call"
    /\ EnvFresh
    /\ continuous_joints = {}
    /\ occupied_cells = {}

NextInterp == CallInterpolate

SpecInterp == InitInterp /\ [][NextInterp]_vars

----------------------------------------------------------------------------
(* The step count of a motion, and the samples of a motion *)

\* joint vectors of an arm of ArmJoints joints, in radians (one tick): joint
\* 0 within its range, joints 2 and 4 at an end of theirs or in the middle
ArmConfigs ==
    {[j \in 1..ArmJoints |->
         IF j = 1 THEN Tick(x) ELSE IF j = 3 THEN Tick(y)
         ELSE IF j = 5 THEN Tick(z) ELSE Tick(0)] :
        x \in 0..MaxAngle, y \in {-MaxAngle, 0, MaxAngle}, z \in {-MaxAngle, 0, MaxAngle}}

\* the robot's continuous joints: any of the arm's roll joints
ContinuousJointChoices == SUBSET {2, 4, 6}

\* A = [0.0, 0.0], B = [0.5, 0.0] with an interpolation distance of 0.1
ScenarioPair == <<Origin, <<Rat(5 * interpolation_distance, 1), Tick(0)>>>>

\* a direct call of the helper, lines 360-383
CallJointDistance ==
    /\ pc = "dist_call"
    /\ call' = [op |-> "getJointDistanceIntegerMax",
                ret |-> getJointDistanceIntegerMax(angles1, angles2,
                                                   <<interpolation_distance, 1>>)]
    /\ pc' = "dist_returned"
    /\ UNCHANGED <<collision_world, continuous_joints, coll_checks, shortcutLocals,
                   interpVars, hash_table, prims, start_, goal_, params_, bfs_,
                   live_fields, live_bfs, path_constraint_set_, occupied_cells,
                   requests, configured>>

InitDistance ==
    /\ coll_checks = 0
    /\ iacc = NoCall
    /\ ShortcutIdle
    /\ EnvFresh
    /\ occupied_cells = {}
    /\ \/ /\ pc = "dist_call"
          /\ collision_world = {}
          /\ continuous_joints \in ContinuousJointChoices
          /\ angles1 \in ArmConfigs
          /\ angles2 \in ArmConfigs
       \/ /\ pc = "interp_call"
          /\ collision_world \in Worlds(Configs)
          /\ continuous_joints = {}
          /\ \E pair \in MatchedPairs \cup {ScenarioPair} :
                /\ angles1 = pair[1]
                /\ angles2 = pair[2]

NextDistance ==
    \/ CallJointDistance
    \/ CallInterpolate

SpecDistance == InitDistance /\ [][NextDistance]_vars

----------------------------------------------------------------------------
(* The planning request: setupForMotionPlan and what it calls *)

\* double converted to int: truncation toward zero
Trunc(x) == IF x[1] >= 0 THEN x[1] \div x[2] ELSE -((-x[1]) \div x[2])

\* lines 331-340; always reports success ("should we check limits of the field?")
continuousXYZtoDiscreteXYZ(P) ==
    [ok |-> TRUE,
     xyz |-> <<Trunc(RDiv(RSub(P[1], <<field_origin_x, 1>>), <<field_resolution, 1>>)),
               Trunc(RDiv(RSub(P[2], <<field_origin_y, 1>>), <<field_resolution, 1>>)),
               Trunc(RDiv(RSub(P[3], <<field_origin_z, 1>>), <<field_resolution, 1>>))>>]

\* state_->getGlobalLinkTransform(tip_link_model_).translation(): the arm of
\* the model carries its tip at (joint 0, joint 1, 0)
EndEffectorPosition(angles) == <<angles[1], angles[2], <<0, 1>>>>

\* lines 313-329
getEndEffectorCoord(angles) == continuousXYZtoDiscreteXYZ(EndEffectorPosition(angles))

\* convertJointAnglesToCoord: each joint value divided by the lattice
\* resolution (one tick), truncated toward zero
convertJointAnglesToCoord(angles) == [j \in 1..Len(angles) |-> Trunc(angles[j])]

\* hash_data_.addHashEntry: a new entry with a fresh ID, appended
addHashEntry(table, coord, angles, xyz) ==
    Append(table, [stateID |-> Len(table), coord |-> coord, angles |-> angles, xyz |-> xyz])

\* addMotionPrimitive: appended to the ordered list
addMotionPrimitive(list, prim) == Append(list, prim)

\* lines 135-140: state_->setJointPositions for each joint constraint in turn
RECURSIVE ApplyJointConstraints(_, _, _)
ApplyJointConstraints(state, jcs, i) ==
    IF i >= Len(jcs) THEN state
    ELSE ApplyJointConstraints([state EXCEPT ![jcs[i + 1].joint] = jcs[i + 1].position],
                               jcs, i + 1)

\* the cells of the grid: field_->getXNumCells() and so on
Cells == (0..(XNumCells - 1)) \X (0..(YNumCells - 1)) \X (0..(ZNumCells - 1))

Adjacent(c, d) == Abs(c[1] - d[1]) + Abs(c[2] - d[2]) + Abs(c[3] - d[3]) = 1

\* BFS_3D::run: breadth-first distances from the goal cell over the free
\* cells, 6-connected; cells never reached have no entry
RECURSIVE Flood(_, _, _, _)
Flood(dist, frontier, d, walls) ==
    IF frontier = {} THEN dist
    ELSE LET next == {c \in Cells \ walls :
                         c \notin DOMAIN dist /\ \E f \in frontier : Adjacent(f, c)}
         IN  Flood(dist @@ [c \in next |-> d + 1], next, d + 1, walls)

BfsRun(walls, goal_xyz) ==
    IF goal_xyz \in Cells THEN Flood([c \in {goal_xyz} |-> 0], {goal_xyz}, 0, walls)
    ELSE [c \in {} |-> 0]

\* the distance BFS_3D keeps for a cell its search never reached
BfsUnreached == INT_MAX

\* BFS_3D::getDistance
BfsGetDistance(grid, c) == IF c \in DOMAIN grid THEN grid[c] ELSE BfsUnreached

\* lines 212-267: from the BFS setup to the end, reached with the goal's data
FinishSetup(mreq, params, prims1, table1, goal_coords, goal_joint_values, goal_xyz) ==
    /\ prims' = prims1
    /\ hash_table' = addHashEntry(table1, goal_coords, goal_joint_values, goal_xyz)
    /\ start_' = Len(table1) - 1
    /\ goal_' = Len(table1)
    /\ IF params.use_bfs
       THEN /\ live_fields' = live_fields + 1
            /\ live_bfs' = live_bfs + 1
            /\ bfs_' = BfsRun(occupied_cells, goal_xyz)
       ELSE UNCHANGED <<live_fields, live_bfs, bfs_>>
    /\ path_constraint_set_' = mreq.path_constraints
    /\ configured' = TRUE
    /\ call' = [op |-> "setupForMotionPlan", mreq |-> mreq, ret |-> TRUE,
                error_code |-> NotSet]

\* a return of false from setupForMotionPlan; the hash entry of the start
\* is in the table, and start_ set, from line 129 on
FailSetup(mreq, error_code, prims1, table1) ==
    /\ prims' = prims1
    /\ hash_table' = table1
    /\ start_' = IF table1 = hash_table THEN start_ ELSE Len(table1) - 1
    /\ UNCHANGED <<goal_, live_fields, live_bfs, bfs_, path_constraint_set_>>
    /\ configured' = FALSE
    /\ call' = [op |-> "setupForMotionPlan", mreq |-> mreq, ret |-> FALSE,
                error_code |-> error_code]

\* moveit_msgs::MotionPlanRequest: the fields setupForMotionPlan reads.  The
\* path constraints are given as the group configurations they reject.
MotionPlanRequest(start_state, goal, path_constraints) ==
    [start_state |-> start_state, goal_constraints |-> <<goal>>,
     path_constraints |-> path_constraints]

\* lines 65-268.  mres is the request's response, its error code not set by
\* the caller.
setupForMotionPlan(mreq, params) ==
    /\ requests < MaxRequests
    /\ requests' = requests + 1
    /\ params_' = params
    /\ LET start_joint_values == mreq.start_state
           goal == mreq.goal_constraints[1]
           start_coords == convertJointAnglesToCoord(start_joint_values)
           start_xyz == getEndEffectorCoord(start_joint_values)
           prims1 == prims \o params.prims
           table1 == addHashEntry(hash_table, start_coords, start_joint_values,
                                  start_xyz.xyz)
           goal_state == ApplyJointConstraints(start_joint_values,
                                               goal.joint_constraints, 0)
           goal_xyz == getEndEffectorCoord(goal_state)
           zeros == [j \in 1..Len(start_joint_values) |-> 0]
       IN  IF Collides(start_joint_values)
           THEN FailSetup(mreq, "START_STATE_IN_COLLISION", prims, hash_table)
           ELSE IF ~start_xyz.ok
           THEN FailSetup(mreq, "INVALID_ROBOT_STATE", prims1, hash_table)
           ELSE IF Len(goal.joint_constraints) > 0
           THEN IF Collides(goal_state)
                THEN FailSetup(mreq, "GOAL_IN_COLLISION", prims1, table1)
                ELSE IF ~goal_xyz.ok
                THEN FailSetup(mreq, "INVALID_GOAL_CONSTRAINTS", prims1, table1)
                ELSE FinishSetup(mreq, params,
                                 IF params.use_joint_snap
                                 THEN addMotionPrimitive(prims1,
                                          [snap_to |-> goal_state,
                                           thresh |-> params.joint_snap_thresh])
                                 ELSE prims1,
                                 table1, convertJointAnglesToCoord(goal_state),
                                 goal_state, goal_xyz.xyz)
           ELSE IF Len(goal.position_constraints) > 0
           THEN FinishSetup(mreq, params, prims1, table1, zeros,
                            [j \in 1..Len(start_joint_values) |-> <<0, 1>>],
                            continuousXYZtoDiscreteXYZ(goal.position_constraints[1]).xyz)
           ELSE FailSetup(mreq, NotSet, prims1, table1)
    /\ UNCHANGED <<collision_world, continuous_joints, coll_checks, shortcutVars,
                   interpVars, occupied_cells>>

\* int arithmetic of 32 bits: a sum and a product that wrap around
WrapAdd(a, b) ==
    IF b > 0 /\ a > INT_MAX - b THEN (a - INT_MAX - 1) + (b - INT_MAX - 1)
    ELSE IF b < 0 /\ a < (-INT_MAX - 1) - b THEN (a + INT_MAX + 1) + (b + INT_MAX + 1)
    ELSE a + b

RECURSIVE WrapMul(_, _)
WrapMul(a, n) == IF n = 0 THEN 0 ELSE WrapAdd(WrapMul(a, n - 1), a)

\* sqrt of getEuclideanDistance, scaled and converted to int (lines 46-49, 355)
ISqrt(n) == CHOOSE k \in 0..n : k * k <= n /\ n < (k + 1) * (k + 1)
EuclideanCost(c, g, scale) ==
    ISqrt(((c[1] - g[1]) * (c[1] - g[1]) + (c[2] - g[2]) * (c[2] - g[2])
              + (c[3] - g[3]) * (c[3] - g[3])) * scale * scale)

\* lines 342-357: the value returned for the cell c
EndEffectorHeuristic(c) ==
    IF params_.use_bfs
    THEN WrapMul(BfsGetDistance(bfs_, c), params_.cost_per_cell)
    ELSE EuclideanCost(c, hash_table[goal_ + 1].xyz,
                       field_resolution * params_.cost_per_meter)

\* the search asks for heuristic values after a setup that succeeded
getEndEffectorHeuristic(c) ==
    /\ configured
    /\ call' = [op |-> "getEndEffectorHeuristic", cell |-> c, ret |-> EndEffectorHeuristic(c)]
    /\ UNCHANGED <<collision_world, continuous_joints, coll_checks, shortcutVars, interpVars,
                   hash_table, prims, start_, goal_, params_, bfs_, live_fields,
                   live_bfs, path_constraint_set_, occupied_cells, requests,
                   configured>>

\* lines 276-282 from index i on.  An ID above the table's size returns
\* false; a negative ID reads outside the table: with garbage = "crash" the
\* process dies there, otherwise the read yields garbage for the angles.
RECURSIVE PopulateLoop(_, _, _, _)
PopulateLoop(state_ids, i, points, garbage) ==
    IF i >= Len(state_ids) THEN [returned |-> TRUE, ret |-> TRUE, points |-> points]
    ELSE IF state_ids[i + 1] > Len(hash_table) - 1
    THEN [returned |-> TRUE, ret |-> FALSE, points |-> points]
    ELSE IF state_ids[i + 1] < 0
    THEN IF garbage = "crash"
         THEN [returned |-> FALSE, ret |-> FALSE, points |-> points]
         ELSE PopulateLoop(state_ids, i + 1, [points EXCEPT ![i + 1] = garbage], garbage)
    ELSE PopulateLoop(state_ids, i + 1,
                      [points EXCEPT ![i + 1] = hash_table[state_ids[i + 1] + 1].angles],
                      garbage)

\* lines 270-283; joint_model_group_ is set by the first planning request
populateTrajectoryFromStateIDSequence(state_ids, garbage) ==
    /\ requests > 0
    /\ LET r == PopulateLoop(state_ids, 0, [i \in 1..Len(state_ids) |-> <<>>], garbage)
       IN  call' = [op |-> "populateTrajectoryFromStateIDSequence",
                    state_ids |-> state_ids, returned |-> r.returned, ret |-> r.ret,
                    traj |-> [joint_names |-> JointNames, points |-> r.points]]
    /\ UNCHANGED <<collision_world, continuous_joints, coll_checks, shortcutVars, interpVars,
                   hash_table, prims, start_, goal_, params_, bfs_, live_fields,
                   live_bfs, path_constraint_set_, occupied_cells, requests,
                   configured>>

\* path_constraint_set_->decide(*state_).satisfied
PathConstraintsSatisfied(rs) == rs \notin path_constraint_set_

\* lines 285-300; path_constraint_set_ is allocated by a request that succeeds
isStateToStateValid(start, end) ==
    /\ configured
    /\ coll_checks < MaxValidityChecks
    /\ LET r == interpolateAndCollisionCheck(start, end)
       IN  IF ~PathConstraintsSatisfied(SetJointGroupPositions(end))
           THEN /\ call' = [op |-> "isStateToStateValid", start |-> start,
                            end |-> end, returned |-> TRUE, ret |-> FALSE]
                /\ UNCHANGED coll_checks
           ELSE /\ call' = [op |-> "isStateToStateValid", start |-> start,
                            end |-> end, returned |-> r.returned, ret |-> r.valid]
                /\ coll_checks' = coll_checks + r.coll_checks
    /\ UNCHANGED <<collision_world, continuous_joints, shortcutVars, interpVars,
                   hash_table, prims, start_, goal_, params_, bfs_, live_fields,
                   live_bfs, path_constraint_set_, occupied_cells, requests,
                   configured>>

----------------------------------------------------------------------------
(* Inputs of the planning request *)

EnvStarts == {Origin, <<Tick(1), Tick(0)>>}
GoalConfigs == {<<Tick(2), Tick(1)>>, <<Tick(1), Tick(0)>>}
EnvConfigs == EnvStarts \cup GoalConfigs

JointGoal(c) ==
    [joint_constraints |-> <<[joint |-> 1, position |-> c[1]],
                             [joint |-> 2, position |-> c[2]]>>,
     position_constraints |-> <<>>]
PositionGoal(target) == [joint_constraints |-> <<>>, position_constraints |-> <<target>>]
NoGoal == [joint_constraints |-> <<>>, position_constraints |-> <<>>]

\* mreq.path_constraints empty: no configuration is rejected
NoPathConstraints == {}

Goals ==
    {JointGoal(c) : c \in GoalConfigs}
        \cup {PositionGoal(<<Tick(2), Tick(0), Tick(0)>>), NoGoal}

\* a configuration whose end effector is one cell beyond the grid in x
BeyondGrid == <<Tick(XNumCells), Tick(0)>>
RangeStarts == EnvStarts \cup {BeyondGrid}
RangeGoals == Goals \cup {JointGoal(BeyondGrid)}

BasePrims == <<"joint_0_step", "joint_1_step">>

ParamChoices ==
    [use_bfs : BOOLEAN, use_joint_snap : BOOLEAN, cost_per_cell : 1..MaxCost,
     cost_per_meter : 1..MaxCost, joint_snap_thresh : {1}, prims : {BasePrims}]

StateIDSequences(n) ==
    UNION {[1..k -> (-1)..n] : k \in 1..MaxStateIDs}

\* path constraints that reject nothing, or one configuration
PathConstraintChoices == {NoPathConstraints} \cup {{c} : c \in WaypointConfigs}

GarbageReads == {"crash", <<>>, <<Tick(MaxAngle), Tick(MaxWrist)>>}

----------------------------------------------------------------------------
(* Planning requests on one environment *)

InitSetup ==
    /\ collision_world \in Worlds(EnvConfigs)
    /\ occupied_cells = {}
    /\ coll_checks = 0
    /\ ShortcutIdle
    /\ pc = "env"
    /\ InterpIdle
    /\ EnvFresh
    /\ continuous_joints = {}

NextSetup ==
    \E start \in EnvStarts, goal \in Goals,
       params \in {p \in ParamChoices : p.cost_per_cell = 1 /\ p.cost_per_meter = 1} :
       setupForMotionPlan(MotionPlanRequest(start, goal, NoPathConstraints), params)

SpecSetup == InitSetup /\ [][NextSetup]_vars

----------------------------------------------------------------------------
(* Trajectories read back from the hash table after planning requests *)

InitTrajectory ==
    /\ collision_world = {}
    /\ occupied_cells = {}
    /\ coll_checks = 0
    /\ ShortcutIdle
    /\ pc = "env"
    /\ InterpIdle
    /\ EnvFresh
    /\ continuous_joints = {}

NextTrajectory ==
    \/ \E start \in EnvStarts, goal \in Goals,
          params \in {p \in ParamChoices : /\ p.cost_per_cell = 1
                                           /\ p.cost_per_meter = 1
                                           /\ ~p.use_bfs
                                           /\ ~p.use_joint_snap} :
          setupForMotionPlan(MotionPlanRequest(start, goal, NoPathConstraints), params)
    \/ \E state_ids \in StateIDSequences(Len(hash_table)), garbage \in GarbageReads :
          populateTrajectoryFromStateIDSequence(state_ids, garbage)

SpecTrajectory == InitTrajectory /\ [][NextTrajectory]_vars

----------------------------------------------------------------------------
(* Heuristic queries after a planning request *)

InitHeuristic ==
    /\ collision_world = {}
    /\ occupied_cells \in Worlds(Cells)
    /\ coll_checks = 0
    /\ ShortcutIdle
    /\ pc = "env"
    /\ InterpIdle
    /\ EnvFresh
    /\ continuous_joints = {}

NextHeuristic ==
    \/ \E goal \in Goals \ {NoGoal},
          params \in {p \in ParamChoices : ~p.use_joint_snap} :
          setupForMotionPlan(MotionPlanRequest(Origin, goal, NoPathConstraints), params)
    \/ \E c \in Cells : getEndEffectorHeuristic(c)

SpecHeuristic == InitHeuristic /\ [][NextHeuristic]_vars

----------------------------------------------------------------------------
(* Planning requests whose start or goal may lie beyond the grid *)

InitSetupRange ==
    /\ collision_world \in Worlds(EnvConfigs \cup {BeyondGrid})
    /\ occupied_cells = {}
    /\ coll_checks = 0
    /\ ShortcutIdle
    /\ pc = "env"
    /\ InterpIdle
    /\ EnvFresh
    /\ continuous_joints = {}

NextSetupRange ==
    \E start \in RangeStarts, goal \in RangeGoals,
       params \in {p \in ParamChoices : /\ p.cost_per_cell = 1
                                        /\ p.cost_per_meter = 1
                                        /\ ~p.use_joint_snap} :
       setupForMotionPlan(MotionPlanRequest(start, goal, NoPathConstraints), params)

SpecSetupRange == InitSetupRange /\ [][NextSetupRange]_vars

----------------------------------------------------------------------------
(* Validity queries of the search after a planning request *)

InitValidity ==
    /\ collision_world \in Worlds(WaypointConfigs)
    /\ occupied_cells = {}
    /\ coll_checks = 0
    /\ ShortcutIdle
    /\ pc = "env"
    /\ InterpIdle
    /\ EnvFresh
    /\ continuous_joints = {}

NextValidity ==
    \/ \E path_constraints \in PathConstraintChoices,
          params \in {p \in ParamChoices : /\ p.cost_per_cell = 1
                                           /\ p.cost_per_meter = 1
                                           /\ ~p.use_bfs
                                           /\ ~p.use_joint_snap} :
          setupForMotionPlan(MotionPlanRequest(Origin, JointGoal(<<Tick(1), Tick(0)>>),
                                               path_constraints), params)
    \/ \E start \in WaypointConfigs, end \in WaypointConfigs :
          isStateToStateValid(start, end)

SpecValidity == InitValidity /\ [][NextValidity]_vars

----------------------------------------------------------------------------
(* Properties of attemptShortcut *)

InPoints == traj_in.points
OutPoints == traj_out.points
isMotionValid(a, b) == interpolateAndCollisionCheck(a, b).valid

\* C1: when attemptShortcut returns on an input of at least two waypoints,
\* every consecutive pair of output points is a motion that passes
\* interpolateAndCollisionCheck.
ShortcutOutputMotionsValid ==
    (pc = "returned" /\ Len(InPoints) >= 2) =>
        \A k \in 1..(Len(OutPoints) - 1) :
            isMotionValid(OutPoints[k], OutPoints[k + 1])

\* C2: every loop iteration that does not finish strictly advances the last
\* committed index or the candidate index.
ShortcutIterationAdvances ==
    [][(pc = "loop" /\ pc' = "loop") =>
          (last_point_ind' > last_point_ind
              \/ current_point_ind' > current_point_ind)]_vars

\* C4: when attemptShortcut returns, the output's first point is the input's
\* first waypoint and its last point is the input's last waypoint.
ShortcutKeepsEndpoints ==
    pc = "returned" =>
        /\ Len(OutPoints) >= 1
        /\ OutPoints[1] = InPoints[1]
        /\ OutPoints[Len(OutPoints)] = InPoints[Len(InPoints)]

ShortcutKeepsEndpointsWitness ==
    /\ pc = "returned"
    /\ Len(InPoints) >= 3
    /\ Len(OutPoints) >= 3
    /\ last_point_ind >= 1
    /\ InPoints[1] \notin collision_world
    /\ InPoints[1] # InPoints[Len(InPoints)]

AllInputMotionsValid ==
    \A i, j \in 1..Len(InPoints) : i # j => isMotionValid(InPoints[i], InPoints[j])

\* the step count of the motion from the first to the last input waypoint
DirectMoves ==
    getJointDistanceIntegerMax(InPoints[1], InPoints[Len(InPoints)],
                               <<interpolation_distance, 1>>)

\* C5 as stated: with every motion between input waypoints valid, the output
\* of attemptShortcut on n >= 2 waypoints is exactly the first and the last
\* input waypoint.
AllValidCollapsesToTwoPoints ==
    (pc = "returned" /\ Len(InPoints) >= 2 /\ AllInputMotionsValid) =>
        OutPoints = <<InPoints[1], InPoints[Len(InPoints)]>>

\* C5 amended: with every motion between input waypoints valid, the output
\* on n >= 2 waypoints is the first waypoint, then the samples at fractions
\* 1/m .. (m-1)/m of the motion from the first to the last waypoint (m its
\* step count), then the last waypoint: two points exactly when m <= 1.
AllValidCollapsesToDirectMotion ==
    (pc = "returned" /\ Len(InPoints) >= 2 /\ AllInputMotionsValid) =>
        /\ OutPoints =
              <<InPoints[1]>>
                  \o [i \in 1..(DirectMoves - 1) |->
                         Interpolate(InPoints[1], InPoints[Len(InPoints)], i, DirectMoves)]
                  \o <<InPoints[Len(InPoints)]>>
        /\ (Len(OutPoints) = 2) <=> (DirectMoves <= 1)

AllValidCollapsesWitness ==
    /\ pc = "returned"
    /\ Len(InPoints) >= 3
    /\ AllInputMotionsValid
    /\ DirectMoves >= 3
    /\ Len(OutPoints) = DirectMoves + 1

----------------------------------------------------------------------------
(* Properties of interpolateAndCollisionCheck *)

InterpCalled == pc \in {"interp_returned", "interp_running"}
MovesOfCall == getJointDistanceIntegerMax(angles1, angles2, <<interpolation_distance, 1>>)
SampleOfCall(i) ==
    Interpolate(SetJointGroupPositions(angles1), SetJointGroupPositions(angles2),
                i, MovesOfCall)

\* C3: a call on vectors of one length returns valid only if the destination
\* and every interior sample i/steps, i in 1..steps-1, is free of collision,
\* and every configuration it returns in state_values is free of collision.
ValidOnlyIfEverySampleFree ==
    (pc = "interp_returned" /\ Len(angles1) = Len(angles2)) =>
        /\ iacc.valid =>
              /\ ~Collides(SetJointGroupPositions(angles2))
              /\ \A i \in 1..(MovesOfCall - 1) : ~Collides(SampleOfCall(i))
        /\ \A k \in 1..Len(iacc.state_values) : ~Collides(iacc.state_values[k])

\* C6: a call on vectors of different length returns invalid at once: with
\* no collision check, no interpolation and an empty state_values.
MismatchRejectedAtOnce ==
    (InterpCalled /\ Len(angles1) # Len(angles2)) =>
        /\ iacc.returned
        /\ ~iacc.valid
        /\ iacc.coll_checks = 0
        /\ iacc.interpolations = 0
        /\ iacc.state_values = <<>>

----------------------------------------------------------------------------
(* Properties of the planning request *)

SetupReturned(ret) == call.op = "setupForMotionPlan" /\ call.ret = ret

\* C7: every return of false from setupForMotionPlan leaves a typed failure
\* reason in the response's error code: start in collision, goal in
\* collision, invalid goal or invalid robot state.
SetupFailureHasReason ==
    SetupReturned(FALSE) =>
        call.error_code \in {"START_STATE_IN_COLLISION", "GOAL_IN_COLLISION",
                             "INVALID_GOAL_CONSTRAINTS", "INVALID_ROBOT_STATE"}

\* C9: after any sequence of planning requests, one that succeeds leaves the
\* hash table with exactly the start entry and the goal entry, the primitive
\* list with the configured base primitives and at most one goal-snap
\* primitive, and at most one heuristic field.
SuccessfulSetupIsRequestScoped ==
    SetupReturned(TRUE) =>
        /\ Len(hash_table) = 2
        /\ start_ = 0
        /\ goal_ = 1
        /\ \/ prims = params_.prims
           \/ /\ Len(prims) = Len(params_.prims) + 1
              /\ SubSeq(prims, 1, Len(params_.prims)) = params_.prims
              /\ "snap_to" \in DOMAIN prims[Len(prims)]
        /\ live_fields <= 1
        /\ live_bfs <= 1

\* C8: populateTrajectoryFromStateIDSequence reports failure whenever an ID
\* of the sequence was never assigned (negative, or above the highest ID),
\* and when it reports success the output holds, for each ID in order, the
\* stored joint angles of that state.
ReadBackFailsOnUnassignedID ==
    call.op = "populateTrajectoryFromStateIDSequence" =>
        LET ids == call.state_ids
            assigned(id) == id >= 0 /\ id <= Len(hash_table) - 1
        IN  /\ (\E i \in 1..Len(ids) : ~assigned(ids[i])) =>
                  (call.returned /\ call.ret = FALSE)
            /\ (call.returned /\ call.ret = TRUE) =>
                  /\ Len(call.traj.points) = Len(ids)
                  /\ \A i \in 1..Len(ids) :
                        /\ assigned(ids[i])
                        /\ call.traj.points[i] = hash_table[ids[i] + 1].angles

\* C10: in BFS mode the heuristic of a reached cell is its cell distance
\* times cost_per_cell, and the heuristic of an unreached cell is the one
\* unreachable value, whatever cost_per_cell is, and is greater than the
\* heuristic of every reached cell.
BfsHeuristicValues ==
    (call.op = "getEndEffectorHeuristic" /\ params_.use_bfs) =>
        IF call.cell \in DOMAIN bfs_
        THEN call.ret = bfs_[call.cell] * params_.cost_per_cell
        ELSE /\ call.ret = BfsUnreached
             /\ \A c \in DOMAIN bfs_ : call.ret > bfs_[c] * params_.cost_per_cell

\* the goal cell of the request that configured the environment
GoalCell == hash_table[goal_ + 1].xyz

\* C11: every value getEndEffectorHeuristic returns for a grid cell is
\* non-negative, and it is 0 only at the goal cell, in BFS mode (cost_per_cell
\* >= 1) and in Euclidean mode alike.
HeuristicNonNegativeZeroOnlyAtGoal ==
    call.op = "getEndEffectorHeuristic" =>
        /\ call.ret >= 0
        /\ call.ret = 0 => call.cell = GoalCell

----------------------------------------------------------------------------
(* Properties of the validity checker *)

\* the step count and the samples of the motion of the last validity query
MovesOfQuery == getJointDistanceIntegerMax(call.start, call.end, <<interpolation_distance, 1>>)
SampleOfQuery(i) ==
    Interpolate(SetJointGroupPositions(call.start), SetJointGroupPositions(call.end),
                i, MovesOfQuery)

\* C12: isStateToStateValid reports a motion valid only if the destination
\* and every interior sample i/steps, i in 1..steps-1, satisfies the path
\* constraints.
ValidOnlyIfSamplesSatisfyPathConstraints ==
    (call.op = "isStateToStateValid" /\ call.returned /\ call.ret) =>
        /\ PathConstraintsSatisfied(SetJointGroupPositions(call.end))
        /\ \A i \in 1..(MovesOfQuery - 1) : PathConstraintsSatisfied(SampleOfQuery(i))

----------------------------------------------------------------------------
(* Properties of the planning request, the grid's range *)

\* whether the end effector of a configuration falls in a cell of the grid
InGrid(angles) == getEndEffectorCoord(angles).xyz \in Cells

\* the goal configuration of a request with joint constraints
GoalStateOf(mreq) ==
    ApplyJointConstraints(mreq.start_state, mreq.goal_constraints[1].joint_constraints, 0)

\* C13: a request whose start configuration has its end effector outside
\* the grid fails with INVALID_ROBOT_STATE, one whose goal configuration has
\* fails with an invalid-goal reason, and no hash entry has an end-effector
\* cell outside the grid.  (A start or goal in collision is reported first.)
SetupRejectsOutOfRange ==
    /\ \A k \in 1..Len(hash_table) : hash_table[k].xyz \in Cells
    /\ call.op = "setupForMotionPlan" =>
          LET mreq == call.mreq
              start_free == ~Collides(mreq.start_state)
              joint_goal == Len(mreq.goal_constraints[1].joint_constraints) > 0
          IN  /\ (start_free /\ ~InGrid(mreq.start_state)) =>
                    (~call.ret /\ call.error_code = "INVALID_ROBOT_STATE")
              /\ (start_free /\ InGrid(mreq.start_state) /\ joint_goal
                     /\ ~Collides(GoalStateOf(mreq)) /\ ~InGrid(GoalStateOf(mreq))) =>
                    (~call.ret /\ call.error_code = "INVALID_GOAL_CONSTRAINTS")

----------------------------------------------------------------------------
(* Properties of interpolateAndCollisionCheck, the ends of a motion *)

\* C14: a call on a zero-length motion (A, A) with A free of collision has
\* step count 0 and returns valid with an empty state_values.
ZeroLengthMotionValid ==
    (InterpCalled /\ angles1 = angles2
        /\ SetJointGroupPositions(angles1) \notin collision_world) =>
        /\ MovesOfCall = 0
        /\ iacc.returned
        /\ iacc.valid
        /\ iacc.state_values = <<>>

ZeroLengthMotionWitness ==
    /\ pc = "interp_returned"
    /\ angles1 = angles2
    /\ angles1[1][2] = 2
    /\ collision_world # {}
    /\ SetJointGroupPositions(angles1) \notin collision_world
    /\ iacc.valid
    /\ coll_checks = 1

\* C19: every call collision-checks the destination, and a call whose
\* destination B is in collision returns invalid after exactly that one
\* collision check, with no interpolation and an empty state_values.
DestinationCheckedFirst ==
    InterpCalled =>
        /\ iacc.coll_checks >= 1
        /\ SetJointGroupPositions(angles2) \in collision_world =>
              /\ iacc.returned
              /\ ~iacc.valid
              /\ iacc.coll_checks = 1
              /\ coll_checks = 1
              /\ iacc.interpolations = 0
              /\ iacc.state_values = <<>>

DestinationCheckedFirstWitness ==
    /\ pc = "interp_returned"
    /\ Len(angles1) = Len(angles2)
    /\ MovesOfCall >= 3
    /\ SetJointGroupPositions(angles2) \in collision_world
    /\ SampleOfCall(1) \in collision_world
    /\ ~iacc.valid
    /\ iacc.coll_checks = 1
    /\ iacc.state_values = <<>>

----------------------------------------------------------------------------
(* Properties of the step count *)

\* the distance of joint j (0-based) between the arguments, as the robot's
\* joint types give it
ClaimedJointDistance(j) ==
    IF j \in continuous_joints
    THEN fabs(shortest_angular_distance(angles1[j + 1], angles2[j + 1]))
    ELSE fabs(RSub(angles2[j + 1], angles1[j + 1]))

ClaimedJointSteps(j) == floor(RDiv(ClaimedJointDistance(j), <<interpolation_distance, 1>>))

ClaimedStepCount ==
    LET steps == {ClaimedJointSteps(j) : j \in 0..(Len(angles1) - 1)} \cup {0}
    IN  CHOOSE m \in steps : \A k \in steps : k <= m

ClaimedSample(i) ==
    Interpolate(SetJointGroupPositions(angles1), SetJointGroupPositions(angles2),
                i, ClaimedStepCount)

MotionCollisionFree ==
    /\ SetJointGroupPositions(angles2) \notin collision_world
    /\ \A i \in 1..(ClaimedStepCount - 1) : ClaimedSample(i) \notin collision_world

\* C15: the step count of a motion is the maximum over the joints of
\* floor(|B_j - A_j| / interpolation distance), with the shortest angular
\* distance for the robot's continuous joints; a collision-free motion of
\* step count m >= 1 returns valid with exactly the m-1 samples at fractions
\* 1/m .. (m-1)/m in order; the motion [0, 0] -> [0.5, 0] at distance 0.1
\* without obstacles has 5 steps and 4 samples and is valid.
StepCountAndSamples ==
    /\ pc = "dist_returned" => call.ret = ClaimedStepCount
    /\ (pc = "interp_returned" /\ MotionCollisionFree /\ ClaimedStepCount >= 1) =>
          /\ MovesOfCall = ClaimedStepCount
          /\ iacc.valid
          /\ iacc.state_values =
                 [i \in 1..(ClaimedStepCount - 1) |-> ClaimedSample(i)]
    /\ (pc = "interp_returned" /\ <<angles1, angles2>> = ScenarioPair
           /\ collision_world = {}) =>
          /\ MovesOfCall = 5
          /\ iacc.valid
          /\ Len(iacc.state_values) = 4

----------------------------------------------------------------------------
(* Properties of attemptShortcut, its commits and its indices *)

\* C16: when the span from the last committed index a to a+1 was found valid
\* and the span a to a+2 is found invalid, the iteration appends input
\* waypoint a+1 alone to the output, makes a+1 the last committed index and
\* leaves the loop about to check the input waypoints a+1 and a+2.
AdjacentSpanCommittedVerbatim ==
    [][(/\ pc = "loop"
        /\ current_point_ind = last_point_ind + 2
        /\ last_good_start_ind = last_point_ind
        /\ last_good_end_ind = last_point_ind + 1
        /\ isMotionValid(At(InPoints, last_point_ind), At(InPoints, last_point_ind + 1))
        /\ ~isMotionValid(At(InPoints, last_point_ind), At(InPoints, last_point_ind + 2)))
         => (/\ OutPoints' = Append(OutPoints, At(InPoints, last_point_ind + 1))
             /\ last_point_ind' = last_point_ind + 1
             /\ current_point_ind' = last_point_ind + 2
             /\ pc' = "loop")]_vars

AdjacentSpanCommittedWitness ==
    /\ pc = "loop"
    /\ Len(InPoints) = 3
    /\ last_point_ind = 1
    /\ current_point_ind = 2
    /\ OutPoints = <<InPoints[1], InPoints[2]>>
    /\ isMotionValid(InPoints[1], InPoints[2])
    /\ ~isMotionValid(InPoints[1], InPoints[3])
    /\ Len(interpolateAndCollisionCheck(InPoints[1], InPoints[2]).state_values) >= 1

\* C17: on an input of exactly one waypoint attemptShortcut returns the
\* input as its output (the joint names and the one point) and makes no
\* validity check.
SingleWaypointUnchanged ==
    (pc = "returned" /\ Len(InPoints) = 1) =>
        /\ traj_out = traj_in
        /\ coll_checks = 0

SingleWaypointWitness ==
    /\ pc = "returned"
    /\ Len(InPoints) = 1
    /\ InPoints[1] \in collision_world
    /\ traj_out.joint_names = JointNames

PairwiseDistinct(points) ==
    \A i, j \in 1..Len(points) : i # j => points[i] # points[j]

\* C18: when attemptShortcut returns on an input of at least two pairwise
\* distinct waypoints, the input's final waypoint occurs in the output
\* exactly once, as its last point.
FinalWaypointExactlyOnce ==
    (pc = "returned" /\ Len(InPoints) >= 2 /\ PairwiseDistinct(InPoints)) =>
        /\ Len(OutPoints) >= 1
        /\ OutPoints[Len(OutPoints)] = InPoints[Len(InPoints)]
        /\ \A k \in 1..(Len(OutPoints) - 1) : OutPoints[k] # InPoints[Len(InPoints)]

\* C20: on an input of n >= 2 waypoints, whenever the loop is about to make a
\* validity check, 0 <= last_point_ind < current_point_ind <= n-1 and
\* last_good_start_ind <= last_good_end_ind <= n-1: the two waypoints of the
\* check, and the waypoint a commit copies, are read within the input.
ShortcutIndicesInBounds ==
    pc = "loop" =>
        /\ Len(InPoints) >= 2
        /\ 0 <= last_point_ind
        /\ last_point_ind < current_point_ind
        /\ current_point_ind <= Len(InPoints) - 1
        /\ 0 <= last_good_start_ind
        /\ last_good_start_ind <= last_good_end_ind
        /\ last_good_end_ind <= Len(InPoints) - 1

ShortcutIndicesWitness ==
    /\ pc = "loop"
    /\ Len(InPoints) = MaxWaypoints
    /\ last_point_ind >= 1
    /\ current_point_ind = Len(InPoints) - 1
    /\ last_good_end_ind = current_point_ind - 1
    /\ last_good_start_ind < last_good_end_ind
    /\ coll_checks >= 3

====
